---- MODULE Spec2Model ----
(***************************************************************************)
(* Model of the ranking request handler of src/api/rank.js: origin guard,  *)
(* sliding-window rate limiter, body normalisation, upstream call and the  *)
(* validation of the upstream completion.                                  *)
(*                                                                         *)
(* Text (request bodies, completion texts, header values) is a sequence of *)
(* lexical atoms; a JavaScript string value is a sequence of characters,   *)
(* each written as a TLA+ string.  JSON values are records of one shape so *)
(* that any two of them can be compared.                                   *)
(***************************************************************************)
EXTENDS Integers, Sequences, FiniteSets, TLC

(***************************************************************************)
(* JSON values                                                             *)
(***************************************************************************)
JVal(t, s, a, o) == [t |-> t, s |-> s, a |-> a, o |-> o]

JUndef == JVal("undefined", <<>>, <<>>, <<>>)
JNull == JVal("null", <<>>, <<>>, <<>>)
JTrue == JVal("bool", <<"true">>, <<>>, <<>>)
JFalse == JVal("bool", <<"false">>, <<>>, <<>>)
JNum(lexeme) == JVal("num", lexeme, <<>>, <<>>)
JStr(chars) == JVal("str", chars, <<>>, <<>>)
JArr(items) == JVal("arr", <<>>, items, <<>>)
JObj(members) == JVal("obj", <<>>, <<>>, members)

Member(key, val) == [k |-> key, v |-> val]

\* obj[key] = val on an object built by JSON.parse: a repeated key keeps its
\* first position and takes the last value.
SetMember(members, key, val) ==
  IF \E i \in 1..Len(members) : members[i].k = key
    THEN [i \in 1..Len(members) |->
            IF members[i].k = key THEN Member(key, val) ELSE members[i]]
    ELSE Append(members, Member(key, val))

\* value.key as JavaScript reads it on a value that is neither null nor
\* undefined: own members of an object, undefined on everything else (no JSON
\* array, string, number or boolean has a property named query, primary or
\* secondary).
GetProp(val, key) ==
  IF val.t = "obj" /\ \E i \in 1..Len(val.o) : val.o[i].k = key
    THEN val.o[CHOOSE i \in 1..Len(val.o) : val.o[i].k = key].v
    ELSE JUndef

\* JavaScript truthiness of a JSON value.
Truthy(val) ==
  CASE val.t = "undefined" -> FALSE
    [] val.t = "null" -> FALSE
    [] val.t = "bool" -> val = JTrue
    [] val.t = "num" -> val.s # <<"0">>
    [] val.t = "str" -> val.s # <<>>
    [] OTHER -> TRUE

(***************************************************************************)
(* Text and String.prototype.trim                                          *)
(***************************************************************************)
Tok(k, s) == [k |-> k, s |-> s]

IsWhiteChar(c) == c \in {" ", "\n"}

RECURSIVE TrimStartChars(_)
TrimStartChars(chars) ==
  IF chars # <<>> /\ IsWhiteChar(Head(chars))
    THEN TrimStartChars(Tail(chars))
    ELSE chars

RECURSIVE TrimEndChars(_)
TrimEndChars(chars) ==
  IF chars # <<>> /\ IsWhiteChar(chars[Len(chars)])
    THEN TrimEndChars(SubSeq(chars, 1, Len(chars) - 1))
    ELSE chars

\* chars.trim()
TrimChars(chars) == TrimEndChars(TrimStartChars(chars))

RECURSIVE TrimStartText(_)
TrimStartText(text) ==
  IF text # <<>> /\ Head(text).k = "ws"
    THEN TrimStartText(Tail(text))
    ELSE text

RECURSIVE TrimEndText(_)
TrimEndText(text) ==
  IF text # <<>> /\ text[Len(text)].k = "ws"
    THEN TrimEndText(SubSeq(text, 1, Len(text) - 1))
    ELSE text

\* text.trim() on a text given as atoms
TrimText(text) == TrimEndText(TrimStartText(text))

(***************************************************************************)
(* JSON.parse                                                              *)
(***************************************************************************)
IsPunct(tk, c) == tk.k = "punct" /\ tk.s = <<c>>

ParseFail == [ok |-> FALSE, val |-> JUndef, next |-> 0]
ParseOk(val, next) == [ok |-> TRUE, val |-> val, next |-> next]

RECURSIVE ParseValue(_, _)
RECURSIVE ParseElems(_, _, _, _)
RECURSIVE ParseMembers(_, _, _, _)

ParseValue(toks, i) ==
  IF i > Len(toks) THEN ParseFail
  ELSE LET tk == toks[i] IN
    CASE tk.k = "lit" /\ tk.s = <<"null">> -> ParseOk(JNull, i + 1)
      [] tk.k = "lit" /\ tk.s = <<"true">> -> ParseOk(JTrue, i + 1)
      [] tk.k = "lit" /\ tk.s = <<"false">> -> ParseOk(JFalse, i + 1)
      [] tk.k = "num" -> ParseOk(JNum(tk.s), i + 1)
      [] tk.k = "str" -> ParseOk(JStr(tk.s), i + 1)
      [] IsPunct(tk, "[") -> ParseElems(toks, i + 1, <<>>, TRUE)
      [] IsPunct(tk, "{") -> ParseMembers(toks, i + 1, <<>>, TRUE)
      [] OTHER -> ParseFail

\* the elements of an array, from position i; first: no element read yet
ParseElems(toks, i, acc, first) ==
  IF i > Len(toks) THEN ParseFail
  ELSE IF first /\ IsPunct(toks[i], "]") THEN ParseOk(JArr(acc), i + 1)
  ELSE LET e == ParseValue(toks, i) IN
    IF ~e.ok \/ e.next > Len(toks) THEN ParseFail
    ELSE IF IsPunct(toks[e.next], "]")
      THEN ParseOk(JArr(Append(acc, e.val)), e.next + 1)
    ELSE IF IsPunct(toks[e.next], ",")
      THEN ParseElems(toks, e.next + 1, Append(acc, e.val), FALSE)
    ELSE ParseFail

\* the members of an object, from position i; first: no member read yet
ParseMembers(toks, i, acc, first) ==
  IF i > Len(toks) THEN ParseFail
  ELSE IF first /\ IsPunct(toks[i], "}") THEN ParseOk(JObj(acc), i + 1)
  ELSE IF toks[i].k # "str" \/ i + 1 > Len(toks) THEN ParseFail
  ELSE IF ~IsPunct(toks[i + 1], ":") THEN ParseFail
  ELSE LET e == ParseValue(toks, i + 2) IN
    IF ~e.ok \/ e.next > Len(toks) THEN ParseFail
    ELSE IF IsPunct(toks[e.next], "}")
      THEN ParseOk(JObj(SetMember(acc, toks[i].s, e.val)), e.next + 1)
    ELSE IF IsPunct(toks[e.next], ",")
      THEN ParseMembers(toks, e.next + 1, SetMember(acc, toks[i].s, e.val), FALSE)
    ELSE ParseFail

IsNotWs(tk) == tk.k # "ws"

\* JSON.parse(text): ok = FALSE stands for the SyntaxError it throws.
\* White space between lexemes is insignificant; a lexeme that is not JSON
\* (a code fence, stray words) and text left after the value are errors.
JSONParse(text) ==
  LET toks == SelectSeq(text, IsNotWs)
      r == ParseValue(toks, 1)
  IN IF r.ok /\ r.next = Len(toks) + 1
       THEN [ok |-> TRUE, val |-> r.val]
       ELSE [ok |-> FALSE, val |-> JUndef]

(***************************************************************************)
(* JSON.stringify                                                          *)
(***************************************************************************)
Punct(c) == Tok("punct", <<c>>)

RECURSIVE JSONStringify(_)
RECURSIVE StringifyElems(_, _)
RECURSIVE StringifyMembers(_, _)

\* JSON.stringify(val) for a val that holds no undefined
JSONStringify(val) ==
  CASE val.t = "null" -> <<Tok("lit", <<"null">>)>>
    [] val.t = "bool" -> <<Tok("lit", val.s)>>
    [] val.t = "num" -> <<Tok("num", val.s)>>
    [] val.t = "str" -> <<Tok("str", val.s)>>
    [] val.t = "arr" -> <<Punct("[")>> \o StringifyElems(val.a, 1) \o <<Punct("]")>>
    [] val.t = "obj" -> <<Punct("{")>> \o StringifyMembers(val.o, 1) \o <<Punct("}")>>

StringifyElems(items, i) ==
  IF i > Len(items) THEN <<>>
  ELSE (IF i > 1 THEN <<Punct(",")>> ELSE <<>>)
       \o JSONStringify(items[i]) \o StringifyElems(items, i + 1)

StringifyMembers(members, i) ==
  IF i > Len(members) THEN <<>>
  ELSE (IF i > 1 THEN <<Punct(",")>> ELSE <<>>)
       \o <<Tok("str", members[i].k), Punct(":")>>
       \o JSONStringify(members[i].v) \o StringifyMembers(members, i + 1)

(***************************************************************************)
(* State                                                                   *)
(***************************************************************************)
VARIABLES
  RATE_LIMIT_WINDOW_MS,  \* rank.js:6, read from the environment at load
  RATE_LIMIT_MAX,        \* rank.js:7
  allowedOrigins,        \* rank.js:9-11
  rateLimitStore,        \* rank.js:13: client key -> admission timestamps
  clock,                 \* what Date.now() returns
  req,                   \* the requests in flight: inputs, position, reply object
  admitLog,              \* history: every timestamp admitted, per client key
  deniedAt,              \* history: per client key, the first denial since its
                         \* latest admission (absent: none)
  lastCheck              \* history: the latest takeRateLimitSlot call

vars == <<RATE_LIMIT_WINDOW_MS, RATE_LIMIT_MAX, allowedOrigins, rateLimitStore,
          clock, req, admitLog, deniedAt, lastCheck>>

config == <<RATE_LIMIT_WINDOW_MS, RATE_LIMIT_MAX, allowedOrigins>>

(***************************************************************************)
(* Origin guard                                                            *)
(***************************************************************************)
\* An absent header and the empty string are both falsy: "" stands for both.
Absent == ""

\* Mutant: the empty allow-list admits nothing instead of everything.
isOriginAllowed_NoDefault(origin) ==
  IF origin = Absent THEN TRUE ELSE origin \in allowedOrigins

isOriginAllowed(origin) ==
  IF origin = Absent \/ allowedOrigins = {} THEN TRUE
  ELSE origin \in allowedOrigins

HasCap(res, cap) == cap \in res.shape

SetHeader(headers, name, value) ==
  [n \in DOMAIN headers \cup {name} |-> IF n = name THEN value ELSE headers[n]]

\* res.setHeader(name, value) when the reply object has the method
ResSetHeader(res, name, value) ==
  [res EXCEPT !.headers = SetHeader(res.headers, name, value)]

\* Mutant: every origin is allowed by a wildcard instead of being echoed.
applyCorsHeaders_Wildcard(res, origin) ==
  IF origin = Absent \/ ~HasCap(res, "setHeader") THEN res
  ELSE ResSetHeader(
         ResSetHeader(
           ResSetHeader(
             ResSetHeader(res, "Access-Control-Allow-Origin", "*"),
             "Access-Control-Allow-Methods", "POST, OPTIONS"),
           "Access-Control-Allow-Headers", "Content-Type"),
         "Vary", "Origin")

applyCorsHeaders(res, origin) ==
  IF origin = Absent \/ ~HasCap(res, "setHeader") THEN res
  ELSE ResSetHeader(
         ResSetHeader(
           ResSetHeader(
             ResSetHeader(res, "Access-Control-Allow-Origin", origin),
             "Access-Control-Allow-Methods", "POST, OPTIONS"),
           "Access-Control-Allow-Headers", "Content-Type"),
         "Vary", "Origin")

(***************************************************************************)
(* Client key                                                              *)
(***************************************************************************)
\* A header value: absent, a string (its characters in s) or a list of strings.
HAbsent == [t |-> "absent", s |-> <<>>, l |-> <<>>]
HStr(chars) == [t |-> "str", s |-> chars, l |-> <<>>]
HList(strs) == [t |-> "list", s |-> <<>>, l |-> strs]

HeaderTruthy(h) == h.t = "list" \/ (h.t = "str" /\ h.s # <<>>)

RECURSIVE SplitFirst(_)
\* chars.split(',')[0]
SplitFirst(chars) ==
  IF chars = <<>> \/ Head(chars) = "," THEN <<>>
  ELSE <<Head(chars)>> \o SplitFirst(Tail(chars))

\* the request's part that getClientKey reads:
\* [xff, xri: header values, remote: characters of socket.remoteAddress, <<>> if none]
getClientKey(rq) ==
  LET header == IF HeaderTruthy(rq.xff) THEN rq.xff ELSE rq.xri IN
  IF header.t = "str" /\ Len(header.s) > 0
    THEN TrimChars(SplitFirst(header.s))
    ELSE IF rq.remote # <<>> THEN rq.remote ELSE <<"unknown">>

(***************************************************************************)
(* Rate limiter                                                            *)
(***************************************************************************)
StoreGet(store, key) == IF key \in DOMAIN store THEN store[key] ELSE <<>>

\* Mutant: one list shared by every key the store holds.
StoreSet_Shared(store, key, val) ==
  [k \in DOMAIN store \cup {key} |-> val]

StoreSet(store, key, val) ==
  [k \in DOMAIN store \cup {key} |-> IF k = key THEN val ELSE store[k]]

\* Mutants of the limiter: a window one millisecond too long, a window that
\* never closes, and a ceiling test that is off by one.
Recent_Inclusive(entries, now) ==
  LET InWindow(ts) == now - ts <= RATE_LIMIT_WINDOW_MS
  IN SelectSeq(entries, InWindow)

Recent_Short(entries, now) ==
  LET InWindow(ts) == now - ts < RATE_LIMIT_WINDOW_MS - 1
  IN SelectSeq(entries, InWindow)

SlotsExhausted_OffByOne(recent) == Len(recent) > RATE_LIMIT_MAX

\* entries.filter((ts) => now - ts < RATE_LIMIT_WINDOW_MS)
Recent(entries, now) ==
  LET InWindow(ts) == now - ts < RATE_LIMIT_WINDOW_MS
  IN SelectSeq(entries, InWindow)

\* recent.length >= RATE_LIMIT_MAX
SlotsExhausted(recent) == Len(recent) >= RATE_LIMIT_MAX

\* Mutant: an admission whose write is lost (the pruned list is stored
\* without now).
takeRateLimitSlot_LostWrite(store, key, now) ==
  LET entries == StoreGet(store, key)
      recent == Recent(entries, now)
  IN [ok |-> ~SlotsExhausted(recent), store |-> StoreSet(store, key, recent)]

\* Mutant: a denied check is recorded like an admitted one.
takeRateLimitSlot_RecordDenied(store, key, now) ==
  LET entries == StoreGet(store, key)
      recent == Recent(entries, now)
  IN [ok |-> ~SlotsExhausted(recent), store |-> StoreSet(store, key, Append(recent, now))]

\* takeRateLimitSlot(key, now): the value returned and the store it leaves
takeRateLimitSlot(store, key, now) ==
  LET entries == StoreGet(store, key)
      recent == Recent(entries, now)
  IN IF SlotsExhausted(recent)
       THEN [ok |-> FALSE, store |-> StoreSet(store, key, recent)]
       ELSE [ok |-> TRUE, store |-> StoreSet(store, key, Append(recent, now))]

(***************************************************************************)
(* Reply emission                                                          *)
(***************************************************************************)
\* A reply object is known by the methods it has (its shape); the model
\* records what the handler did to it.
NewRes(shape) ==
  [shape |-> shape,
   statusCode |-> 0,      \* set by res.status(code) or res.statusCode = code
   headers |-> <<>>,      \* name -> value, as set by res.setHeader
   emits |-> 0,           \* calls of json(payload), send(body) or end(body)
   via |-> "none",        \* the method of the latest such call
   json |-> JUndef,       \* the payload handed to res.json
   sent |-> <<>>,         \* the text handed to res.send or res.end
   ends |-> 0]            \* calls of res.end() without a body

SetStatus(res, statusCode) == [res EXCEPT !.statusCode = statusCode]

\* Mutant: the status is set only through res.status(code); a reply object
\* with a statusCode field keeps the status it had.
respond_SetterOnly(res, statusCode, payload) ==
  LET body == JSONStringify(payload)
      r1 == IF HasCap(res, "status") THEN SetStatus(res, statusCode) ELSE res
      r2 == IF HasCap(r1, "setHeader")
              THEN ResSetHeader(r1, "Content-Type", "application/json")
              ELSE r1
  IN IF HasCap(r2, "json")
       THEN [r2 EXCEPT !.emits = @ + 1, !.via = "json", !.json = payload]
     ELSE IF HasCap(r2, "send")
       THEN [r2 EXCEPT !.emits = @ + 1, !.via = "send", !.sent = body]
     ELSE IF HasCap(r2, "end")
       THEN [r2 EXCEPT !.emits = @ + 1, !.via = "end", !.sent = body]
     ELSE r2

respond(res, statusCode, payload) ==
  LET body == JSONStringify(payload)
      r1 == SetStatus(res, statusCode)
      r2 == IF HasCap(r1, "setHeader")
              THEN ResSetHeader(r1, "Content-Type", "application/json")
              ELSE r1
  IN IF HasCap(r2, "json")
       THEN [r2 EXCEPT !.emits = @ + 1, !.via = "json", !.json = payload]
     ELSE IF HasCap(r2, "send")
       THEN [r2 EXCEPT !.emits = @ + 1, !.via = "send", !.sent = body]
     ELSE IF HasCap(r2, "end")
       THEN [r2 EXCEPT !.emits = @ + 1, !.via = "end", !.sent = body]
     ELSE r2

\* Mutant: the reply to OPTIONS is ended with the default status.
respondNoContent_Default(res) ==
  LET r1 == SetStatus(res, 200)
  IN IF HasCap(r1, "end") THEN [r1 EXCEPT !.ends = @ + 1] ELSE r1

\* lines 116-123: the reply to OPTIONS
respondNoContent(res) ==
  LET r1 == SetStatus(res, 204)
  IN IF HasCap(r1, "end") THEN [r1 EXCEPT !.ends = @ + 1] ELSE r1

ErrorPayload(msg) == JObj(<<Member(<<"error">>, JStr(<<msg>>))>>)

ErrorDetailsPayload(msg, details) ==
  JObj(<<Member(<<"error">>, JStr(<<msg>>)), Member(<<"details">>, JStr(details))>>)

(***************************************************************************)
(* Body normalisation                                                      *)
(***************************************************************************)
\* A request body: kind "object" (req.body is the value obj), "string"
\* (req.body is the text), "stream" (req.body is undefined and the chunks
\* arrive as data events).
BodyObject(val) == [kind |-> "object", obj |-> val, text |-> <<>>, chunks |-> <<>>]
BodyString(text) == [kind |-> "string", obj |-> JUndef, text |-> text, chunks |-> <<>>]
BodyStream(chunks) == [kind |-> "stream", obj |-> JUndef, text |-> <<>>, chunks |-> chunks]
BodyUnread == [kind |-> "unread", obj |-> JUndef, text |-> <<>>, chunks |-> <<>>]

\* JSON.parse in try/catch: null is the invalid signal
ParseOrNull(text) ==
  LET p == JSONParse(text) IN IF p.ok THEN p.val ELSE JNull

\* parseBody for a body the transport has already read (lines 76-85)
parseBodySync(body) ==
  IF body.kind = "object" THEN body.obj ELSE ParseOrNull(body.text)

\* Mutant: a stream that ends with no data is parsed like any other text.
parseBodyEnd_NoDefault(raw) == ParseOrNull(raw)

\* the end handler of a streamed body (lines 91-101)
parseBodyEnd(raw) ==
  IF raw = <<>> THEN JObj(<<>>) ELSE ParseOrNull(raw)

(***************************************************************************)
(* Upstream call                                                           *)
(***************************************************************************)
\* The catalog of ../recipes-data.js: id, title, details.
RECIPES ==
  << [id |-> "R01", title |-> "Chicken Soup", details |-> "classic broth"],
     [id |-> "R02", title |-> "Veggie Stew", details |-> "root vegetables"],
     [id |-> "R03", title |-> "Miso Ramen", details |-> "noodles in broth"] >>

RECURSIVE RecipeLines(_)
\* RECIPES.map(...).join('\n'), as characters
RecipeLines(i) ==
  IF i > Len(RECIPES) THEN <<>>
  ELSE (IF i > 1 THEN <<"\n">> ELSE <<>>)
       \o <<RECIPES[i].id, " | ", RECIPES[i].title, " | ", RECIPES[i].details>>
       \o RecipeLines(i + 1)

recipeContext == RecipeLines(1)

\* the request body sent upstream (lines 158-172)
UpstreamPayload(userQuery) ==
  [model |-> "gpt-4o-mini",
   temperature |-> "0.2",
   user |-> <<"Recipe list:\n">> \o recipeContext \o <<"\n\nUser request: ">>
            \o userQuery \o <<"\nReturn JSON exactly with the recipe ids.">>]

NoPayload == [model |-> "", temperature |-> "", user |-> <<>>]

\* The code-fence markers; a backquote is written ' here.
FenceAtoms == {"'''json", "'''JSON", "'''"}

\* Mutant: only the bare marker is removed; an opening marker that names
\* the language stays in the text.
StripFences_BareOnly(text) ==
  LET IsNotBareTok(tk) == ~(tk.k = "fence" /\ tk.s = <<"'''">>)
      IsNotBareChar(c) == c # "'''"
      kept == SelectSeq(text, IsNotBareTok)
  IN [i \in 1..Len(kept) |->
        IF kept[i].k = "str"
          THEN Tok("str", SelectSeq(kept[i].s, IsNotBareChar))
          ELSE kept[i]]

\* raw.replace(/'''json|'''/gi, ""): the markers go wherever they stand,
\* inside string literals too
StripFences(text) ==
  LET IsNotFenceTok(tk) == tk.k # "fence"
      IsNotFenceChar(c) == c \notin FenceAtoms
      kept == SelectSeq(text, IsNotFenceTok)
  IN [i \in 1..Len(kept) |->
        IF kept[i].k = "str"
          THEN Tok("str", SelectSeq(kept[i].s, IsNotFenceChar))
          ELSE kept[i]]

\* data?.choices?.[0]?.message?.content as the handler sees it: "absent"
\* (undefined at any link, or null), "other" (a number, boolean, array or
\* object) or "text" (a string, its text in text).
ContentAbsent == [t |-> "absent", text |-> <<>>]
ContentOther == [t |-> "other", text |-> <<>>]
ContentText(text) == [t |-> "text", text |-> text]

\* lines 191-210: what the handler does with the completion.
\* Returns [threw, status, payload, details].
Validated(threw, status, payload, details) ==
  [threw |-> threw, status |-> status, payload |-> payload, details |-> details]

ValidateCompletion(content) ==
  IF content.t = "other"
    THEN Validated(TRUE, 0, JUndef, <<"content.trim is not a function">>)
  ELSE LET raw == IF content.t = "absent" THEN <<>> ELSE TrimText(content.text) IN
    IF raw = <<>>
      THEN Validated(FALSE, 502, ErrorPayload("ChatGPT returned an empty response."), <<>>)
    ELSE LET cleaned == TrimText(StripFences(raw))
             p == JSONParse(cleaned)
         IN IF ~p.ok
              THEN Validated(FALSE, 502,
                             ErrorPayload("Unable to parse ChatGPT ranking response."), <<>>)
            ELSE IF p.val.t = "null"
              THEN Validated(TRUE, 0, JUndef,
                             <<"Cannot read properties of null (reading 'primary')">>)
            ELSE IF GetProp(p.val, <<"primary">>).t # "str"
                    \/ GetProp(p.val, <<"secondary">>).t # "arr"
              THEN Validated(FALSE, 502,
                             ErrorPayload("ChatGPT returned unexpected data."), <<>>)
            ELSE Validated(FALSE, 200, p.val, <<>>)

(***************************************************************************)
(* The handler                                                             *)
(***************************************************************************)
\* A request: the position of the handler in it, what the handler has read
\* of req (an input is recorded when the handler reads it) and what it has
\* computed so far.
NewReq(origin, method, shape) ==
  [pc |-> "idle",
   origin |-> origin, method |-> method,
   xff |-> HAbsent, xri |-> HAbsent, remote |-> <<>>,  \* as read by getClientKey
   body |-> BodyUnread,                                \* as read by parseBody
   raw |-> <<>>,              \* parseBody's raw
   clientKey |-> <<>>, now |-> -1,
   slot |-> "none",           \* none | granted | denied
   parsedBody |-> JUndef,
   apiKey |-> "unread",       \* process.env.OPENAI_API_KEY as read at line 151
   userQuery |-> <<>>,
   fetches |-> 0,             \* calls of fetch(OPENAI_URL, ...)
   payload |-> NoPayload,
   upStatus |-> 0,            \* response.status
   settled |-> "none",        \* what the upstream call came to: fetchRejected,
                              \* textRejected, text, jsonRejected, json
   content |-> ContentAbsent, \* the completion read from the upstream reply
   thrown |-> <<>>,           \* the message of the error handler rejected with
   res |-> NewRes(shape)]

IdleReq == NewReq(Absent, Absent, {})

\* origin && !isOriginAllowed(origin)  (line 107)
OriginRejected(origin) == origin # Absent /\ ~isOriginAllowed(origin)

\* Mutant: every method is let through to the rate check.
MethodRejected_Never(method) == FALSE

\* req.method && req.method !== 'POST'  (line 127)
MethodRejected(method) == method # Absent /\ method # "POST"

\* Mutant: the credential is not checked.
CredentialMissing_Unchecked(apiKey) == FALSE

\* !apiKey  (line 152)
CredentialMissing(apiKey) == apiKey = ""

\* response.ok
ResponseOk(status) == status \in 200..299

Finish(q, res) == [q EXCEPT !.pc = "done", !.res = res]

Reject(q, message) == [q EXCEPT !.pc = "rejected", !.thrown = message]

\* lines 140-182, after parseBody has yielded parsedBody: the request record
\* when the handler next suspends or returns
BodyPhase(q, parsedBody, apiKey) ==
  LET q1 == [q EXCEPT !.parsedBody = parsedBody] IN
  IF parsedBody.t = "null"
    THEN Finish(q1, respond(q1.res, 400, ErrorPayload("Invalid JSON body.")))
  ELSE LET qv == GetProp(parsedBody, <<"query">>) IN
    IF Truthy(qv) /\ qv.t # "str"
      THEN Reject(q1, <<"(parsedBody.query || '').trim is not a function">>)
    ELSE LET userQuery == IF Truthy(qv) THEN TrimChars(qv.s) ELSE <<>>
             q2 == [q1 EXCEPT !.userQuery = userQuery]
         IN IF userQuery = <<>>
              THEN Finish(q2, respond(q2.res, 400, ErrorPayload("Query is required.")))
            ELSE LET q3 == [q2 EXCEPT !.apiKey = apiKey] IN
              IF CredentialMissing(apiKey)
                THEN Finish(q3, respond(q3.res, 500,
                       ErrorPayload("Server misconfiguration: missing OpenAI API key.")))
                ELSE [q3 EXCEPT !.pc = "awaitFetch",
                                !.fetches = @ + 1,
                                !.payload = UpstreamPayload(userQuery)]

NoCheck ==
  [made |-> FALSE, key |-> <<>>, now |-> -1, entries |-> <<>>, ok |-> FALSE,
   deniedSince |-> -1]

DeniedGet(d, key) == IF key \in DOMAIN d THEN d[key] ELSE -1

\* The record of a takeRateLimitSlot(key, now) call that returned ok.
LogCall(key, now, ok) ==
  lastCheck' = [made |-> TRUE, key |-> key, now |-> now,
                entries |-> StoreGet(rateLimitStore, key), ok |-> ok,
                deniedSince |-> DeniedGet(deniedAt, key)]

\* The histories kept beside a call made under a clock that never goes back.
LogCheck(key, now, ok) ==
  /\ LogCall(key, now, ok)
  /\ admitLog' = IF ok
                   THEN StoreSet(admitLog, key, Append(StoreGet(admitLog, key), now))
                   ELSE admitLog
  /\ deniedAt' = IF ok THEN StoreSet(deniedAt, key, -1)
                 ELSE IF DeniedGet(deniedAt, key) >= 0 THEN deniedAt
                 ELSE StoreSet(deniedAt, key, now)

\* handler(req, res) from its call to its first suspension (lines 105-139).
\* A body the transport has read makes parseBody return a value, and the
\* await of a value resumes in the same turn of the event loop: the handler
\* then runs on to the fetch or to its reply before anything else runs.
HandlerStart(r, inputs, apiKeys) ==
  /\ req[r].pc = "idle"
  /\ \E in \in inputs, apiKey \in apiKeys :
       LET q0 == NewReq(in.origin, in.method, in.shape)
           res1 == IF in.origin # Absent THEN applyCorsHeaders(q0.res, in.origin)
                   ELSE q0.res
       IN IF OriginRejected(in.origin)
            THEN /\ req' = [req EXCEPT ![r] =
                      Finish(q0, respond(q0.res, 403, ErrorPayload("Origin not allowed.")))]
                 /\ UNCHANGED <<rateLimitStore, admitLog, deniedAt, lastCheck>>
          ELSE IF in.method = "OPTIONS"
            THEN /\ req' = [req EXCEPT ![r] = Finish(q0, respondNoContent(res1))]
                 /\ UNCHANGED <<rateLimitStore, admitLog, deniedAt, lastCheck>>
          ELSE IF MethodRejected(in.method)
            THEN /\ req' = [req EXCEPT ![r] =
                      Finish(q0, respond(res1, 405,
                                         ErrorPayload("Method not allowed. Use POST.")))]
                 /\ UNCHANGED <<rateLimitStore, admitLog, deniedAt, lastCheck>>
          ELSE LET clientKey == getClientKey(in)
                   now == clock
                   t == takeRateLimitSlot(rateLimitStore, clientKey, now)
                   q1 == [q0 EXCEPT !.res = res1, !.clientKey = clientKey, !.now = now,
                                    !.xff = in.xff, !.xri = in.xri, !.remote = in.remote,
                                    !.body = IF t.ok THEN in.body ELSE BodyUnread,
                                    !.slot = IF t.ok THEN "granted" ELSE "denied"]
               IN /\ rateLimitStore' = t.store
                  /\ LogCheck(clientKey, now, t.ok)
                  /\ req' = [req EXCEPT ![r] =
                       IF ~t.ok
                         THEN Finish(q1, respond(res1, 429, ErrorPayload(
                                "Rate limit exceeded. Please wait a moment and try again.")))
                       ELSE IF in.body.kind = "stream"
                         THEN [q1 EXCEPT !.pc = "awaitBody"]
                       ELSE BodyPhase(q1, parseBodySync(in.body), apiKey)]
  /\ UNCHANGED <<config, clock>>

\* req.on('data', ...) (lines 88-90): the next chunk of a streamed body
StreamData(r) ==
  /\ req[r].pc = "awaitBody"
  /\ req[r].body.chunks # <<>>
  /\ req' = [req EXCEPT ![r].raw = @ \o Head(req[r].body.chunks),
                        ![r].body.chunks = Tail(@)]
  /\ UNCHANGED <<config, clock, rateLimitStore, admitLog, deniedAt, lastCheck>>

\* req.on('end', ...) (lines 91-101) and the handler resumed by it
StreamEnd(r, apiKeys) ==
  /\ req[r].pc = "awaitBody"
  /\ req[r].body.chunks = <<>>
  /\ \E apiKey \in apiKeys :
       req' = [req EXCEPT ![r] = BodyPhase(req[r], parseBodyEnd(req[r].raw), apiKey)]
  /\ UNCHANGED <<config, clock, rateLimitStore, admitLog, deniedAt, lastCheck>>

\* the catch of lines 211-213
respondCaught(res, message) ==
  respond(res, 500, ErrorDetailsPayload("Unable to complete ranking request.", message))

\* fetch settles (lines 175-184): it rejects, or resolves with a status
FetchSettle(r, statuses) ==
  /\ req[r].pc = "awaitFetch"
  /\ \/ req' = [req EXCEPT ![r] =
                  Finish([req[r] EXCEPT !.settled = "fetchRejected"],
                         respondCaught(req[r].res, <<"fetch failed">>))]
     \/ \E status \in statuses :
          req' = [req EXCEPT ![r].upStatus = status,
                             ![r].pc = IF ResponseOk(status) THEN "awaitJson"
                                       ELSE "awaitText"]
  /\ UNCHANGED <<config, clock, rateLimitStore, admitLog, deniedAt, lastCheck>>

\* response.text() settles (lines 185-187)
UpstreamText(r, errorTexts) ==
  /\ req[r].pc = "awaitText"
  /\ \/ req' = [req EXCEPT ![r] =
                  Finish([req[r] EXCEPT !.settled = "textRejected"],
                         respondCaught(req[r].res, <<"terminated">>))]
     \/ \E errorMessage \in errorTexts :
          req' = [req EXCEPT ![r] = Finish([req[r] EXCEPT !.settled = "text"],
                    respond(req[r].res, req[r].upStatus,
                            ErrorDetailsPayload("ChatGPT API error.", errorMessage)))]
  /\ UNCHANGED <<config, clock, rateLimitStore, admitLog, deniedAt, lastCheck>>

\* lines 190-213: the status and the payload the handler answers with once
\* the upstream reply has been read and holds the completion content
HandlerOutcome(content) ==
  LET v == ValidateCompletion(content)
  IN IF v.threw
       THEN [status |-> 500,
             body |-> ErrorDetailsPayload("Unable to complete ranking request.",
                                          v.details)]
       ELSE [status |-> v.status, body |-> v.payload]

\* response.json() settles (lines 190-210)
UpstreamJson(r, contents) ==
  /\ req[r].pc = "awaitJson"
  /\ \/ req' = [req EXCEPT ![r] =
                  Finish([req[r] EXCEPT !.settled = "jsonRejected"],
                         respondCaught(req[r].res,
                                       <<"Unexpected token < in JSON at position 0">>))]
     \/ \E content \in contents :
          LET v == ValidateCompletion(content)
              q == [req[r] EXCEPT !.content = content, !.settled = "json"]
          IN req' = [req EXCEPT ![r] =
                IF v.threw THEN Finish(q, respondCaught(q.res, v.details))
                ELSE Finish(q, respond(q.res, v.status, v.payload))]
  /\ UNCHANGED <<config, clock, rateLimitStore, admitLog, deniedAt, lastCheck>>

\* Mutant: a request that did not end in success gives its slot back.
Release_Refund(r) ==
  /\ req[r].pc \in {"done", "rejected"}
  /\ req' = [req EXCEPT ![r] = IdleReq]
  /\ rateLimitStore' =
       IF req[r].slot = "granted" /\ req[r].res.statusCode # 200
         THEN LET list == StoreGet(rateLimitStore, req[r].clientKey)
              IN StoreSet(rateLimitStore, req[r].clientKey,
                          SubSeq(list, 1, Len(list) - 1))
         ELSE rateLimitStore
  /\ UNCHANGED <<config, clock, admitLog, deniedAt, lastCheck>>

\* The transport drops a request the handler has settled.
Release(r) ==
  /\ req[r].pc \in {"done", "rejected"}
  /\ req' = [req EXCEPT ![r] = IdleReq]
  /\ UNCHANGED <<config, clock, rateLimitStore, admitLog, deniedAt, lastCheck>>

\* Date.now() moves on
Tick(maxTime) ==
  /\ clock < maxTime
  /\ clock' = clock + 1
  /\ UNCHANGED <<config, rateLimitStore, req, admitLog, deniedAt, lastCheck>>

(***************************************************************************)
(* Bounds and the inputs the requests are drawn from                       *)
(***************************************************************************)
MaxTime == 2        \* the clock's last value under Spec
MaxRateTime == 3    \* the clock's last value under SpecRate
MaxCallTime == 4    \* the largest timestamp handed to the limiter under SpecRL
MaxConcTime == 3    \* the clock's last value under SpecConc

Str(chars) == Tok("str", chars)
Lit(word) == Tok("lit", <<word>>)
Num(lexeme) == Tok("num", <<lexeme>>)
Ws(c) == Tok("ws", <<c>>)
Fence(marker) == Tok("fence", <<marker>>)
Junk(word) == Tok("junk", <<word>>)

\* {"query": <value>}
QueryText(valueToks) ==
  <<Punct("{"), Str(<<"query">>), Punct(":")>> \o valueToks \o <<Punct("}")>>

\* {"primary": <p>, "secondary": <s>}
RankingText(primaryToks, secondaryToks) ==
  <<Punct("{"), Str(<<"primary">>), Punct(":")>> \o primaryToks
    \o <<Punct(","), Str(<<"secondary">>), Punct(":")>> \o secondaryToks
    \o <<Punct("}")>>

TwoIds == <<Punct("["), Str(<<"R02">>), Punct(","), Str(<<"R03">>), Punct("]")>>

GoodRanking == RankingText(<<Str(<<"R01">>)>>, TwoIds)

Origins == {Absent, "https://a.example", "https://b.example"}

AllowLists == {{}, {"https://a.example"}}

Methods == {Absent, "POST", "OPTIONS", "GET"}

\* Reply objects: a framework's (status, json, send, end), Node's own
\* (statusCode, setHeader, end), and the minimal shapes: status and json
\* setters only, a status code field only, a terminal write call only.
Shapes ==
  { {"status", "setHeader", "json", "send", "end"},
    {"setHeader", "end"},
    {"status", "json"},
    {},
    {"end"} }

\* The headers and peer address getClientKey reads.
Client(xff, xri, remote) == [xff |-> xff, xri |-> xri, remote |-> remote]

ProxiedClient == Client(HStr(<<"10.0.0.1", ",", " ", "10.0.0.2">>), HAbsent, <<"127.0.0.1">>)

Clients == { ProxiedClient, Client(HAbsent, HAbsent, <<>>) }

Bodies ==
  { BodyObject(JObj(<<Member(<<"query">>, JStr(<<"soup">>))>>)),
    BodyObject(JObj(<<Member(<<"query">>, JNum(<<"5">>))>>)),
    BodyObject(JObj(<<>>)),
    BodyString(QueryText(<<Str(<<" ", "chicken", " ", "soup", "\n">>)>>)),
    BodyString(QueryText(<<Str(<<" ", " ">>)>>)),
    BodyString(QueryText(<<Punct("["), Str(<<"soup">>), Punct("]")>>)),
    BodyString(QueryText(<<Lit("true")>>)),
    BodyString(QueryText(<<Lit("null")>>)),
    BodyString(QueryText(<<Num("0")>>)),
    BodyString(<<Junk("query=soup")>>),
    BodyString(<<Lit("null")>>),
    BodyString(<<Num("5")>>),
    BodyString(<<>>),
    BodyStream(<<>>),
    BodyStream(<< <<Punct("{"), Str(<<"query">>)>>,
                  <<Punct(":"), Str(<<"soup">>), Punct("}"), Ws("\n")>> >>),
    BodyStream(<< <<Punct("{"), Str(<<"query">>)>> >>) }

ApiKeys == {"", "sk-test"}

UpStatuses == {200, 403, 503}

ErrorTexts == { <<>>, <<"insufficient_quota">> }

Contents ==
  { ContentAbsent,
    ContentOther,
    ContentText(<<>>),
    ContentText(<<Ws(" "), Ws("\n")>>),
    ContentText(GoodRanking),
    ContentText(<<Fence("'''json"), Ws("\n")>> \o GoodRanking \o <<Ws("\n"), Fence("'''")>>),
    ContentText(<<Fence("'''json"), Fence("'''")>>),
    ContentText(<<Junk("Sure!"), Ws(" ")>> \o GoodRanking),
    ContentText(<<Punct("{"), Str(<<"primary">>), Punct(":"), Str(<<"R01">>), Punct("}")>>),
    ContentText(RankingText(<<Str(<<"R01">>)>>, <<Punct("["), Punct("]")>>)),
    ContentText(RankingText(<<Str(<<"R01">>)>>,
                            <<Punct("["), Num("7"), Punct(","), Lit("null"), Punct(",")>>
                              \o <<Str(<<"R03">>), Punct("]")>>)),
    ContentText(RankingText(<<Num("1")>>, TwoIds)),
    ContentText(RankingText(<<Str(<<"R01">>)>>, <<Str(<<"R02">>)>>)),
    ContentText(RankingText(<<Str(<<"R", "'''", "01">>)>>, TwoIds)),
    ContentText(<<Lit("null")>>),
    ContentText(<<Lit("true")>>),
    ContentText(<<Num("5")>>),
    ContentText(<<Str(<<"R01">>)>>),
    ContentText(<<Punct("["), Str(<<"R01">>), Punct("]")>>) }

Inputs(origins, methods, clients, shapes, bodies) ==
  { [origin |-> o, method |-> m, xff |-> c.xff, xri |-> c.xri, remote |-> c.remote,
     shape |-> sh, body |-> b] :
      o \in origins, m \in methods, c \in clients, sh \in shapes, b \in bodies }

AllInputs == Inputs(Origins, Methods, {ProxiedClient}, Shapes, Bodies)

(***************************************************************************)
(* Specifications                                                          *)
(***************************************************************************)
Reqs == {1}

InitWith(windows, ceilings, allowLists) ==
  /\ RATE_LIMIT_WINDOW_MS \in windows
  /\ RATE_LIMIT_MAX \in ceilings
  /\ allowedOrigins \in allowLists
  /\ rateLimitStore = <<>>
  /\ clock = 0
  /\ req = [r \in Reqs |-> IdleReq]
  /\ admitLog = <<>>
  /\ deniedAt = <<>>
  /\ lastCheck = NoCheck

\* One request at a time, every input, one client.
Init == InitWith({2}, {1}, AllowLists)

Next ==
  \/ HandlerStart(1, AllInputs, ApiKeys)
  \/ StreamData(1)
  \/ StreamEnd(1, ApiKeys)
  \/ FetchSettle(1, UpStatuses)
  \/ UpstreamText(1, ErrorTexts)
  \/ UpstreamJson(1, Contents)
  \/ Release(1)
  \/ Tick(MaxTime)

Spec == Init /\ [][Next]_vars

\* The limiter alone: takeRateLimitSlot called with any key and any
\* timestamp, in any order.
RLKeys == { <<"10.0.0.1">>, <<"unknown">> }

RLCall ==
  \E key \in RLKeys, now \in 0..MaxCallTime :
    LET t == takeRateLimitSlot(rateLimitStore, key, now)
    IN /\ rateLimitStore' = t.store
       /\ LogCall(key, now, t.ok)
       /\ clock' = now
       /\ UNCHANGED <<config, req, admitLog, deniedAt>>

InitRL == InitWith({2, 3}, {1, 2}, {{}})

NextRL == RLCall

SpecRL == InitRL /\ [][NextRL]_vars

\* The limiter behind the handler: requests of two clients, each admitted
\* or denied and then answered, under every configuration.
RateInputs ==
  Inputs({Absent}, {"POST"}, Clients, {{"status", "setHeader", "json", "send", "end"}},
         {BodyString(<<Junk("query=soup")>>)})

InitRate == InitWith({2, 3}, {1, 2}, {{}})

NextRate ==
  \/ HandlerStart(1, RateInputs, {""})
  \/ Release(1)
  \/ Tick(MaxRateTime)

SpecRate == InitRate /\ [][NextRate]_vars

\* Requests in flight together: two calls of handler, each suspended at its
\* awaits (the end of the body stream, the upstream call and the reading of
\* its reply) while the other runs.
ConcReqs == {1, 2}

ConcInputs ==
  Inputs({Absent}, {"POST"}, {ProxiedClient},
         {{"status", "setHeader", "json", "send", "end"}},
         { BodyObject(JObj(<<Member(<<"query">>, JStr(<<"soup">>))>>)),
           BodyStream(<< QueryText(<<Str(<<"soup">>)>>) >>) })

InitConc ==
  /\ RATE_LIMIT_WINDOW_MS = 2
  /\ RATE_LIMIT_MAX \in {1, 2}
  /\ allowedOrigins = {}
  /\ rateLimitStore = <<>>
  /\ clock = 0
  /\ req = [r \in ConcReqs |-> IdleReq]
  /\ admitLog = <<>>
  /\ deniedAt = <<>>
  /\ lastCheck = NoCheck

NextConc ==
  \/ \E r \in ConcReqs :
       \/ HandlerStart(r, ConcInputs, {"sk-test"})
       \/ StreamData(r)
       \/ StreamEnd(r, {"sk-test"})
       \/ FetchSettle(r, {200})
       \/ UpstreamJson(r, {ContentText(GoodRanking)})
       \/ Release(r)
  \/ Tick(MaxConcTime)

SpecConc == InitConc /\ [][NextConc]_vars

\* The client key alone: requests that differ in the headers and the peer
\* address getClientKey reads, each header absent, empty, a string or a
\* list of strings.
KeyClients ==
  { Client(xff, xri, remote) :
      xff \in { HAbsent, HStr(<<>>),
                HStr(<<"10.0.0.1", ",", " ", "10.0.0.2">>),
                HStr(<<" ", "10.0.0.1", " ">>),
                HStr(<<",", "10.0.0.2">>),
                HList(<< <<"10.0.0.1">>, <<"10.0.0.2">> >>) },
      xri \in { HAbsent, HStr(<<"10.0.0.9">>) },
      remote \in { <<>>, <<"127.0.0.1">> } }

KeyInputs ==
  Inputs({Absent}, {"POST"}, KeyClients,
         {{"status", "setHeader", "json", "send", "end"}},
         {BodyString(<<Junk("query=soup")>>)})

InitKey == InitWith({2}, {1}, {{}})

NextKey ==
  \/ HandlerStart(1, KeyInputs, {""})
  \/ Release(1)

SpecKey == InitKey /\ [][NextKey]_vars

(***************************************************************************)
(* Claims                                                                  *)
(***************************************************************************)
\* the timestamps of list strictly newer than now - RATE_LIMIT_WINDOW_MS
NewerThanWindow(list, now) ==
  {i \in 1..Len(list) : list[i] > now - RATE_LIMIT_WINDOW_MS}

\* C1: after any sequence of takeRateLimitSlot calls, with any keys and any
\* timestamps in any order, every key's stored list holds, at every
\* evaluation time, at most RATE_LIMIT_MAX timestamps strictly newer than the
\* evaluation time less the window.
C1_StoredWithinCeiling ==
  \A key \in DOMAIN rateLimitStore :
    \A now \in 0..(MaxCallTime + RATE_LIMIT_WINDOW_MS) :
      Cardinality(NewerThanWindow(rateLimitStore[key], now)) <= RATE_LIMIT_MAX

\* C1's case: a call was denied on a full list whose timestamps are out of
\* order, all of them inside the window of the call.
C1_Witness ==
  /\ lastCheck.made /\ ~lastCheck.ok
  /\ RATE_LIMIT_MAX = 2
  /\ LET list == rateLimitStore[lastCheck.key]
     IN /\ Len(list) = 2
        /\ list[1] > list[2]
        /\ Cardinality(NewerThanWindow(list, lastCheck.now)) = 2


\* the admissions of log whose timestamps lie in the span of
\* RATE_LIMIT_WINDOW_MS milliseconds that starts at from
AdmittedInSpan(log, from) ==
  {j \in 1..Len(log) : from <= log[j] /\ log[j] < from + RATE_LIMIT_WINDOW_MS}

\* C2: under a clock that never goes back, for every client key, at most
\* RATE_LIMIT_MAX of the checks whose timestamps lie within one span of
\* RATE_LIMIT_WINDOW_MS milliseconds are admitted, and a request whose check
\* is denied is answered 429 while an admitted one is not.
C2_AtMostCeilingPerWindow ==
  /\ \A key \in DOMAIN admitLog :
       \A from \in 0..MaxRateTime :
         Cardinality(AdmittedInSpan(admitLog[key], from)) <= RATE_LIMIT_MAX
  /\ \A r \in Reqs :
       /\ req[r].slot = "denied" =>
            /\ req[r].pc = "done"
            /\ req[r].res.statusCode = 429
            /\ Cardinality(AdmittedInSpan(admitLog[req[r].clientKey],
                                          req[r].now - RATE_LIMIT_WINDOW_MS + 1))
                 = RATE_LIMIT_MAX
       /\ req[r].slot = "granted" => req[r].res.statusCode # 429

\* C2's case: a client has used its ceiling inside the window and its next
\* request, at a later time still inside the window, is answered 429.
C2_Witness ==
  \E r \in Reqs :
    /\ req[r].slot = "denied"
    /\ req[r].res.statusCode = 429
    /\ RATE_LIMIT_MAX = 2
    /\ LET log == admitLog[req[r].clientKey]
       IN /\ Len(log) >= 2
          /\ log[Len(log)] < req[r].now

SeqMin(list) == CHOOSE x \in {list[i] : i \in 1..Len(list)} :
                  \A i \in 1..Len(list) : x <= list[i]

\* C3: a check of a key whose list holds RATE_LIMIT_MAX timestamps is
\* admitted when the oldest of them is RATE_LIMIT_WINDOW_MS or more behind
\* the check and denied when it is less behind; and a check made
\* RATE_LIMIT_WINDOW_MS or more after a denial of the same key, with no
\* admission of that key between the two, is admitted.
C3_AdmissionResumes ==
  lastCheck.made =>
    /\ Len(lastCheck.entries) = RATE_LIMIT_MAX =>
         (lastCheck.ok <=>
            lastCheck.now - SeqMin(lastCheck.entries) >= RATE_LIMIT_WINDOW_MS)
    /\ (lastCheck.deniedSince >= 0
        /\ lastCheck.now - lastCheck.deniedSince >= RATE_LIMIT_WINDOW_MS)
         => lastCheck.ok

\* C3's case: a client denied earlier, not admitted since, is admitted on a
\* full list exactly RATE_LIMIT_WINDOW_MS after the denial.
C3_Witness ==
  /\ lastCheck.made /\ lastCheck.ok
  /\ Len(lastCheck.entries) = RATE_LIMIT_MAX
  /\ lastCheck.deniedSince >= 0
  /\ lastCheck.now - lastCheck.deniedSince = RATE_LIMIT_WINDOW_MS
  /\ lastCheck.now - SeqMin(lastCheck.entries) = RATE_LIMIT_WINDOW_MS


\* the reply object has a method that emits a payload
CanEmit(res) == res.shape \cap {"json", "send", "end"} # {}

\* the payload the caller receives: the object handed to res.json, or the
\* text handed to res.send or res.end, parsed
EmittedBody(res) ==
  IF res.via = "json" THEN res.json
  ELSE IF res.via = "none" THEN JUndef
  ELSE ParseOrNull(res.sent)

\* the origin is one the configuration admits
Listed(origin) ==
  origin = Absent \/ allowedOrigins = {} \/ origin \in allowedOrigins

\* C4: every failure of any stage becomes a JSON error response carrying an
\* error string: for every request, whatever JSON value its body's query
\* field holds, the handler never throws or rejects, and it never returns
\* without having emitted a response on a reply object that can emit one.
C4_EveryFailureAnswered ==
  \A r \in Reqs :
    /\ req[r].pc # "rejected"
    /\ (req[r].pc = "done" /\ CanEmit(req[r].res) /\ req[r].method # "OPTIONS")
         => req[r].res.emits = 1
    /\ (req[r].pc = "done" /\ req[r].res.emits = 1 /\ req[r].res.statusCode # 200)
         => GetProp(EmittedBody(req[r].res), <<"error">>).t = "str"

\* C5: a request whose origin is present and not on a non-empty allow-list
\* is answered 403 whatever its method, and no later stage runs for it (no
\* CORS header, no rate-limit check, no body read, no upstream call); every
\* other request (empty allow-list, absent origin, listed origin) passes the
\* origin check.
C5_OriginAdmission ==
  \A r \in Reqs :
    req[r].pc # "idle" =>
      LET q == req[r] IN
      /\ ~Listed(q.origin) =>
           /\ q.pc = "done"
           /\ q.res.statusCode = 403
           /\ q.res.headers \in {<<>>, [n \in {"Content-Type"} |-> "application/json"]}
           /\ q.res.ends = 0
           /\ CanEmit(q.res) => EmittedBody(q.res) = ErrorPayload("Origin not allowed.")
           /\ q.slot = "none" /\ q.body.kind = "unread" /\ q.fetches = 0
      /\ Listed(q.origin) =>
           ~(q.pc = "done" /\ q.res.statusCode = 403 /\ q.slot = "none")

\* C5's case: an OPTIONS request from an origin outside a non-empty
\* allow-list has been answered 403.
C5_Witness ==
  \E r \in Reqs :
    /\ allowedOrigins # {}
    /\ req[r].origin \notin allowedOrigins \cup {Absent}
    /\ req[r].method = "OPTIONS"
    /\ req[r].pc = "done" /\ req[r].res.statusCode = 403

\* C6: the step that takes up an OPTIONS request from an admitted origin
\* ends it with status 204 and no payload, on every reply object, and leaves
\* the rate limiter's store and call record as they were, with no upstream
\* call.
C6_OptionsStep ==
  \A r \in Reqs :
    (req[r].pc = "idle" /\ req'[r].pc # "idle"
     /\ req'[r].method = "OPTIONS" /\ Listed(req'[r].origin))
      => /\ req'[r].pc = "done"
         /\ req'[r].res.statusCode = 204
         /\ req'[r].res.emits = 0 /\ req'[r].res.via = "none"
         /\ req'[r].res.ends = (IF "end" \in req'[r].res.shape THEN 1 ELSE 0)
         /\ "Content-Type" \notin DOMAIN req'[r].res.headers
         /\ rateLimitStore' = rateLimitStore
         /\ lastCheck' = lastCheck
         /\ req'[r].slot = "none"
         /\ req'[r].fetches = 0

C6_OptionsNoContent == [][C6_OptionsStep]_vars

\* C6's case: an OPTIONS request from a listed origin has been answered on a
\* reply object with only a status code field, after the client had used
\* the rate limiter.
C6_Witness ==
  \E r \in Reqs :
    /\ req[r].method = "OPTIONS" /\ req[r].pc = "done"
    /\ req[r].origin # Absent /\ req[r].origin \in allowedOrigins
    /\ req[r].res.shape = {}
    /\ req[r].res.statusCode = 204
    /\ lastCheck.made

\* C7: an upstream call is issued at most once per request and only for a
\* request that passed every earlier stage: origin admitted, method POST or
\* absent, slot granted, body parsed, trimmed query non-empty, credential
\* present; a request that finds the credential missing is answered 500 and
\* issues no call.
C7_UpstreamAfterAllStages ==
  \A r \in Reqs :
    LET q == req[r] IN
    /\ q.fetches <= 1
    /\ q.fetches = 1 =>
         /\ Listed(q.origin)
         /\ q.method \in {Absent, "POST"}
         /\ q.slot = "granted"
         /\ q.parsedBody.t \notin {"undefined", "null"}
         /\ GetProp(q.parsedBody, <<"query">>).t = "str"
         /\ q.userQuery = TrimChars(GetProp(q.parsedBody, <<"query">>).s)
         /\ q.userQuery # <<>>
         /\ q.apiKey \notin {"", "unread"}
    /\ q.apiKey = "" =>
         /\ q.pc = "done" /\ q.res.statusCode = 500
         /\ q.fetches = 0 /\ q.settled = "none"

\* C7's case: a request read the credential, found it missing and was
\* answered.
C7_Witness ==
  \E r \in Reqs :
    /\ req[r].apiKey = ""
    /\ req[r].userQuery # <<>>
    /\ req[r].pc = "done"

ListedStatuses == {200, 400, 403, 405, 429, 500, 502}

\* C8 as claimed: every response to a POST request carries one of the listed
\* statuses, whatever the upstream returns.
C8_ListedStatusOnly ==
  \A r \in Reqs :
    (req[r].pc = "done" /\ req[r].method = "POST")
      => req[r].res.statusCode \in ListedStatuses

\* C8 as amended: every response to a POST request carries one of the listed
\* statuses or, when the upstream call returned a non-success status, that
\* status.
C8_ListedOrRelayedStatus ==
  \A r \in Reqs :
    (req[r].pc = "done" /\ req[r].method = "POST")
      => \/ req[r].res.statusCode \in ListedStatuses
         \/ /\ req[r].settled = "text"
            /\ ~ResponseOk(req[r].upStatus)
            /\ req[r].res.statusCode = req[r].upStatus

\* C8's case: the upstream answered 503 and the POST request was answered
\* with it.
C8_Witness ==
  \E r \in Reqs :
    /\ req[r].pc = "done" /\ req[r].method = "POST"
    /\ req[r].settled = "text" /\ req[r].upStatus = 503
    /\ req[r].res.statusCode = 503

IsRankingResult(val) ==
  /\ val.t = "obj"
  /\ GetProp(val, <<"primary">>).t = "str"
  /\ LET secondary == GetProp(val, <<"secondary">>)
     IN /\ secondary.t = "arr"
        /\ Len(secondary.a) = 2
        /\ \A i \in 1..Len(secondary.a) : secondary.a[i].t = "str"

\* C9: the body of every 200 response is a RankingResult: primary a string,
\* secondary a sequence of exactly two strings.
C9_SuccessIsRankingResult ==
  \A r \in Reqs :
    (req[r].pc = "done" /\ req[r].res.statusCode = 200 /\ req[r].res.emits = 1)
      => IsRankingResult(EmittedBody(req[r].res))

\* the reply carries status and, where it can be seen, the error message msg
AnsweredError(res, status, msg) ==
  /\ res.statusCode = status
  /\ CanEmit(res) => EmittedBody(res) = ErrorPayload(msg)

\* C10: when the upstream call succeeded with a string completion, an empty
\* completion is answered 502 empty response, a text that does not parse is
\* answered 502 unable to parse, and a text that parses to any JSON value
\* without a string primary or without an array secondary is answered 502
\* unexpected data.
C10_MalformedIs502 ==
  \A r \in Reqs :
    (req[r].pc = "done" /\ req[r].settled = "json" /\ req[r].content.t = "text")
      => LET raw == TrimText(req[r].content.text)
             p == JSONParse(TrimText(StripFences(raw)))
         IN /\ raw = <<>> =>
                 AnsweredError(req[r].res, 502, "ChatGPT returned an empty response.")
            /\ (raw # <<>> /\ ~p.ok) =>
                 AnsweredError(req[r].res, 502, "Unable to parse ChatGPT ranking response.")
            /\ (raw # <<>> /\ p.ok
                /\ (GetProp(p.val, <<"primary">>).t # "str"
                    \/ GetProp(p.val, <<"secondary">>).t # "arr")) =>
                 AnsweredError(req[r].res, 502, "ChatGPT returned unexpected data.")


\* the handler has taken up the value parseBody yielded for request q
BodyParsed(q) ==
  q.slot = "granted" /\ q.pc \notin {"idle", "awaitBody"}

\* C11: a string body that is not valid JSON is answered 400 invalid JSON
\* body; a streamed body that ends with no data becomes the empty object and
\* the request is answered 400 query is required; an object body is used as
\* it is; and parseBody yields a parsed JSON value or null in every case: a
\* body that does not parse never makes the handler throw.
C11_BodyNormalised ==
  \A r \in Reqs :
    LET q == req[r] IN
    BodyParsed(q) =>
      /\ (q.body.kind = "string" /\ ~JSONParse(q.body.text).ok) =>
           /\ q.parsedBody = JNull
           /\ q.pc = "done"
           /\ AnsweredError(q.res, 400, "Invalid JSON body.")
      /\ (q.body.kind = "stream" /\ q.raw = <<>>) =>
           /\ q.parsedBody = JObj(<<>>)
           /\ q.pc = "done"
           /\ AnsweredError(q.res, 400, "Query is required.")
      /\ (q.body.kind = "stream" /\ q.raw # <<>> /\ ~JSONParse(q.raw).ok) =>
           /\ q.parsedBody = JNull
           /\ q.pc = "done"
           /\ AnsweredError(q.res, 400, "Invalid JSON body.")
      /\ q.body.kind = "object" => q.parsedBody = q.body.obj
      /\ (q.body.kind = "string" /\ JSONParse(q.body.text).ok) =>
           q.parsedBody = JSONParse(q.body.text).val
      /\ (q.body.kind = "stream" /\ JSONParse(q.raw).ok) =>
           q.parsedBody = JSONParse(q.raw).val
      /\ q.parsedBody.t # "undefined"
      /\ (q.pc = "rejected" =>
            /\ q.parsedBody.t # "null"
            /\ Truthy(GetProp(q.parsedBody, <<"query">>)))

\* C11's case: a streamed body ended with no data and the request was
\* answered on a reply object that shows the payload.
C11_Witness ==
  \E r \in Reqs :
    /\ req[r].pc = "done" /\ req[r].slot = "granted"
    /\ req[r].body.kind = "stream" /\ req[r].raw = <<>>
    /\ req[r].res.statusCode = 400
    /\ CanEmit(req[r].res)


\* the three reply objects of the contract: status and json setters, a
\* status code field only, a terminal write call only
ContractShapes == { {"status", "json"}, {}, {"end"} }

\* C12: on each of the three reply objects, every request the handler was
\* called with ends, on every exit path, with the status code set, the
\* content type set to JSON when the reply object has setHeader, and the JSON
\* payload emitted exactly once.
C12_EmittedExactlyOnce ==
  \A r \in Reqs :
    LET q == req[r] IN
    (q.pc \in {"done", "rejected"} /\ q.res.shape \in ContractShapes) =>
      /\ q.res.statusCode # 0
      /\ HasCap(q.res, "setHeader") =>
           /\ "Content-Type" \in DOMAIN q.res.headers
           /\ q.res.headers["Content-Type"] = "application/json"
      /\ q.res.emits = 1


\* text wrapped in code-fence markers, each on a line of its own
Fenced(text) ==
  <<Fence("'''json"), Ws("\n")>> \o text \o <<Ws("\n"), Fence("'''")>>

\* the reply carries the status and, where it can be seen, the payload the
\* handler answers the completion content with
AnsweredAsFor(res, content) ==
  LET o == HandlerOutcome(content)
  IN /\ res.statusCode = o.status
     /\ CanEmit(res) => EmittedBody(res) = o.body

\* C13 as claimed: for every completion text T, the status and body the
\* handler answers T with are those it answers T wrapped in code-fence
\* markers with.
C13_FencedSameAsUnfenced ==
  \A r \in Reqs :
    (req[r].pc = "done" /\ req[r].settled = "json" /\ req[r].content.t = "text")
      => AnsweredAsFor(req[r].res, ContentText(Fenced(req[r].content.text)))

\* C13 as amended: the same for every completion text T that is not empty
\* once trimmed.
C13_FencedSameUnlessEmpty ==
  \A r \in Reqs :
    (req[r].pc = "done" /\ req[r].settled = "json" /\ req[r].content.t = "text"
     /\ TrimText(req[r].content.text) # <<>>)
      => AnsweredAsFor(req[r].res, ContentText(Fenced(req[r].content.text)))

\* C13's case: an unfenced ranking was answered 200 with a visible payload,
\* and the same ranking in fences is answered 200 as well.
C13_Witness ==
  \E r \in Reqs :
    /\ req[r].pc = "done" /\ req[r].settled = "json"
    /\ req[r].content = ContentText(GoodRanking)
    /\ req[r].res.statusCode = 200 /\ CanEmit(req[r].res)
    /\ HandlerOutcome(ContentText(Fenced(GoodRanking))).status = 200


\* stages that have not run for request q
NoRateCheck(q) == q.slot = "none" /\ q.clientKey = <<>> /\ q.now = -1
NoBodyParse(q) == q.body.kind = "unread" /\ q.parsedBody.t = "undefined"
NoConfigCheck(q) == q.apiKey = "unread"
NoUpstreamCall(q) == q.fetches = 0 /\ q.settled = "none"

\* the trimmed query of a parsed body is empty
QueryMissing(parsedBody) ==
  LET qv == GetProp(parsedBody, <<"query">>)
  IN \/ qv.t \in {"undefined", "null"}
     \/ qv = JFalse
     \/ qv = JNum(<<"0">>)
     \/ qv.t = "str" /\ TrimChars(qv.s) = <<>>

\* what the stage order requires of request q wherever it stands
StageOrder(q) ==
  /\ ~Listed(q.origin) =>
       /\ q.pc = "done" /\ AnsweredError(q.res, 403, "Origin not allowed.")
       /\ NoRateCheck(q) /\ NoBodyParse(q) /\ NoConfigCheck(q) /\ NoUpstreamCall(q)
  /\ (Listed(q.origin) /\ q.method = "OPTIONS") =>
       /\ q.pc = "done" /\ q.res.statusCode = 204
       /\ NoRateCheck(q) /\ NoBodyParse(q) /\ NoConfigCheck(q) /\ NoUpstreamCall(q)
  /\ (Listed(q.origin) /\ q.method \notin {Absent, "POST", "OPTIONS"}) =>
       /\ q.pc = "done" /\ AnsweredError(q.res, 405, "Method not allowed. Use POST.")
       /\ NoRateCheck(q) /\ NoBodyParse(q) /\ NoConfigCheck(q) /\ NoUpstreamCall(q)
  /\ (Listed(q.origin) /\ q.method \in {Absent, "POST"}) =>
       /\ q.slot \in {"granted", "denied"}
       /\ q.slot = "denied" =>
            /\ q.pc = "done"
            /\ AnsweredError(q.res, 429,
                 "Rate limit exceeded. Please wait a moment and try again.")
            /\ NoBodyParse(q) /\ NoConfigCheck(q) /\ NoUpstreamCall(q)
       /\ (q.slot = "granted" /\ q.pc = "awaitBody") =>
            /\ q.parsedBody.t = "undefined"
            /\ NoConfigCheck(q) /\ NoUpstreamCall(q)
       /\ (q.slot = "granted" /\ q.pc # "awaitBody") =>
            /\ q.parsedBody.t = "null" =>
                 /\ q.pc = "done" /\ AnsweredError(q.res, 400, "Invalid JSON body.")
                 /\ NoConfigCheck(q) /\ NoUpstreamCall(q)
            /\ (q.parsedBody.t # "null" /\ q.pc = "rejected") =>
                 NoConfigCheck(q) /\ NoUpstreamCall(q)
            /\ (q.parsedBody.t # "null" /\ q.pc # "rejected"
                /\ QueryMissing(q.parsedBody)) =>
                 /\ q.pc = "done" /\ AnsweredError(q.res, 400, "Query is required.")
                 /\ NoConfigCheck(q) /\ NoUpstreamCall(q)
            /\ (q.parsedBody.t # "null" /\ q.pc # "rejected"
                /\ ~QueryMissing(q.parsedBody)) =>
                 /\ q.apiKey # "unread"
                 /\ q.apiKey = "" =>
                      /\ q.pc = "done"
                      /\ AnsweredError(q.res, 500,
                           "Server misconfiguration: missing OpenAI API key.")
                      /\ NoUpstreamCall(q)
                 /\ q.apiKey # "" =>
                      /\ q.fetches = 1
                      /\ q.pc = "awaitFetch" => q.settled = "none" /\ q.upStatus = 0
                      /\ q.pc \in {"awaitText", "awaitJson"} =>
                           /\ q.settled = "none"
                           /\ ResponseOk(q.upStatus) <=> q.pc = "awaitJson"
                      /\ q.pc = "done" =>
                           /\ q.settled # "none"
                           /\ q.settled \in {"fetchRejected", "textRejected", "jsonRejected"}
                                => q.res.statusCode = 500
                           /\ q.settled \in {"text", "textRejected"}
                                => ~ResponseOk(q.upStatus)
                           /\ q.settled = "text" => q.res.statusCode = q.upStatus
                           /\ q.settled \in {"json", "jsonRejected"}
                                => ResponseOk(q.upStatus)
                           /\ q.settled = "json" => AnsweredAsFor(q.res, q.content)
  /\ q.res.statusCode = 200 =>
       /\ q.settled = "json" /\ q.fetches = 1 /\ q.slot = "granted"
       /\ HandlerOutcome(q.content).status = 200

\* no stage runs after a terminal response, no exit before the rate check
\* touches the limiter, and only the rate check does
StageStep ==
  \A r \in Reqs :
    /\ (req[r].pc = "idle" /\ req'[r].pc # "idle" /\ req'[r].slot = "none") =>
         rateLimitStore' = rateLimitStore /\ lastCheck' = lastCheck
    /\ req[r].pc \in {"done", "rejected"} => req'[r] \in {req[r], IdleReq}
    /\ req[r].pc # "idle" => rateLimitStore' = rateLimitStore
    /\ req'[r].fetches > req[r].fetches =>
         req'[r].fetches = 1 /\ req'[r].pc = "awaitFetch"

\* C14: a request goes through origin check, method check, rate check, body
\* parse, query validation, credential check, upstream call and upstream
\* validation in that order; its response is that of the earliest stage
\* that fails; no stage after that one has run (no limiter change on the 403
\* and 405 exits, no upstream call on any earlier exit), and nothing runs
\* for the request after its terminal response.
C14_StagePrecedence ==
  [][(\A r \in Reqs : req'[r].pc # "idle" => StageOrder(req'[r])) /\ StageStep]_vars

\* C14's case: a GET request from a client whose window is full is answered
\* 405, not 429, and the limiter has not been asked.
C14_Witness ==
  \E r \in Reqs :
    /\ req[r].pc = "done" /\ req[r].method = "GET"
    /\ req[r].res.statusCode = 405 /\ req[r].slot = "none"
    /\ lastCheck.made /\ lastCheck.ok
    /\ clock - lastCheck.now < RATE_LIMIT_WINDOW_MS
    /\ Len(StoreGet(rateLimitStore, lastCheck.key)) = RATE_LIMIT_MAX


\* list is the end of log
IsSuffix(list, log) ==
  /\ Len(list) <= Len(log)
  /\ \A i \in 1..Len(list) : list[i] = log[Len(log) - Len(list) + i]

\* the requests in flight that hold a slot of key granted less than
\* RATE_LIMIT_WINDOW_MS ago
HoldingSlot(key) ==
  {r \in DOMAIN req : /\ req[r].slot = "granted"
                      /\ req[r].clientKey = key
                      /\ clock - req[r].now < RATE_LIMIT_WINDOW_MS}

\* C15: with requests suspended at their awaits while others start, run and
\* finish in any order, every check's read, filter and write of its key's
\* list is one step: no admission is lost from the list (the list is the
\* end of the key's admissions and holds every admission still inside the
\* window), so at most RATE_LIMIT_MAX checks of one key are admitted within
\* any span of RATE_LIMIT_WINDOW_MS milliseconds and at most RATE_LIMIT_MAX
\* requests in flight hold a slot of one key granted inside the window.
C15_AtomicAdmission ==
  /\ \A key \in DOMAIN admitLog :
       /\ \A from \in 0..MaxConcTime :
            Cardinality(AdmittedInSpan(admitLog[key], from)) <= RATE_LIMIT_MAX
       /\ IsSuffix(StoreGet(rateLimitStore, key), admitLog[key])
       /\ \A j \in 1..Len(admitLog[key]) :
            clock - admitLog[key][j] < RATE_LIMIT_WINDOW_MS =>
              j > Len(admitLog[key]) - Len(StoreGet(rateLimitStore, key))
       /\ Cardinality(HoldingSlot(key)) <= RATE_LIMIT_MAX
  /\ \A r \in DOMAIN req :
       req[r].slot = "denied" => req[r].pc = "done" /\ req[r].res.statusCode = 429

\* C15's case: while one request of a client is suspended with its slot,
\* another request of the same client, started inside the window, is denied.
C15_Witness ==
  \E r1 \in DOMAIN req, r2 \in DOMAIN req :
    /\ r1 # r2
    /\ req[r1].pc \in {"awaitBody", "awaitFetch", "awaitJson"}
    /\ req[r1].slot = "granted"
    /\ req[r2].slot = "denied"
    /\ req[r2].clientKey = req[r1].clientKey
    /\ req[r2].now > req[r1].now


\* the timestamps of list less than RATE_LIMIT_WINDOW_MS behind now, in order
Pruned(list, now) ==
  LET Kept(ts) == ts > now - RATE_LIMIT_WINDOW_MS
  IN SelectSeq(list, Kept)

\* the admissions of a key before its latest check
AdmittedBefore(check) ==
  LET log == StoreGet(admitLog, check.key)
  IN IF check.ok THEN SubSeq(log, 1, Len(log) - 1) ELSE log

\* C16: a denied check leaves the key's list exactly the pruned list, without
\* the time of the check; an admitted check leaves the pruned list with the
\* time of the check appended once; and whether a check is admitted depends
\* on the earlier admissions alone, however many denied checks came between.
C16_DeniedRecordsNothing ==
  lastCheck.made =>
    LET stored == StoreGet(rateLimitStore, lastCheck.key)
        pruned == Pruned(lastCheck.entries, lastCheck.now)
    IN /\ ~lastCheck.ok => stored = pruned
       /\ lastCheck.ok => stored = Append(pruned, lastCheck.now)
       /\ lastCheck.ok <=>
            Len(Pruned(AdmittedBefore(lastCheck), lastCheck.now)) < RATE_LIMIT_MAX

\* C16's case: a client denied earlier is denied again at a later time, and
\* its list is as it was.
C16_Witness ==
  /\ lastCheck.made /\ ~lastCheck.ok
  /\ lastCheck.deniedSince >= 0
  /\ lastCheck.deniedSince < lastCheck.now
  /\ StoreGet(rateLimitStore, lastCheck.key) = lastCheck.entries
  /\ lastCheck.entries # <<>>


CorsNames ==
  {"Access-Control-Allow-Origin", "Access-Control-Allow-Methods",
   "Access-Control-Allow-Headers", "Vary"}

\* the reply carries the four CORS headers, the first one echoing origin
HasCors(res, origin) ==
  /\ CorsNames \subseteq DOMAIN res.headers
  /\ res.headers["Access-Control-Allow-Origin"] = origin
  /\ res.headers["Access-Control-Allow-Methods"] = "POST, OPTIONS"
  /\ res.headers["Access-Control-Allow-Headers"] = "Content-Type"
  /\ res.headers["Vary"] = "Origin"

NoCors(res) == CorsNames \cap DOMAIN res.headers = {}

\* C17 as claimed: the reply of a request carries the four CORS headers,
\* echoing the request's own origin, exactly when the origin is present and
\* admitted; a 403 rejection and a request without an origin carry none.
C17_CorsExactlyWhenAdmitted ==
  \A r \in Reqs :
    req[r].pc # "idle" =>
      LET q == req[r] IN
      IF q.origin # Absent /\ Listed(q.origin)
        THEN HasCors(q.res, q.origin)
        ELSE NoCors(q.res)

\* C17 as amended: the same for a reply object that has setHeader; a reply
\* object without it carries no header at all.
C17_CorsWhenAdmittedAndSettable ==
  \A r \in Reqs :
    req[r].pc # "idle" =>
      LET q == req[r] IN
      /\ IF q.origin # Absent /\ Listed(q.origin) /\ HasCap(q.res, "setHeader")
           THEN HasCors(q.res, q.origin)
           ELSE NoCors(q.res)
      /\ ~HasCap(q.res, "setHeader") => q.res.headers = <<>>
      /\ (q.pc = "done" /\ q.res.statusCode = 403 /\ q.slot = "none") => NoCors(q.res)

\* C17's case: under a non-empty allow-list, a preflight request from a
\* listed origin has been answered with the four headers on a reply object
\* with setHeader.
C17_Witness ==
  \E r \in Reqs :
    /\ allowedOrigins # {}
    /\ req[r].pc = "done" /\ req[r].method = "OPTIONS"
    /\ req[r].origin \in allowedOrigins
    /\ HasCap(req[r].res, "setHeader")
    /\ HasCors(req[r].res, req[r].origin)


\* a header that is present: a non-empty string or a non-empty list
HeaderPresent(h) ==
  \/ h.t = "str" /\ h.s # <<>>
  \/ h.t = "list" /\ h.l # <<>>

\* the first comma-separated value of a header, its first string if it is a
\* list
FirstValue(h) ==
  TrimChars(SplitFirst(IF h.t = "list" THEN h.l[1] ELSE h.s))

\* the key the derivation rule gives
DerivedKey(xff, xri, remote) ==
  IF HeaderPresent(xff) THEN FirstValue(xff)
  ELSE IF HeaderPresent(xri) THEN FirstValue(xri)
  ELSE IF remote # <<>> THEN remote
  ELSE <<"unknown">>

\* C18: for every combination of forwarded-for header, real-ip header and
\* peer address, each header absent, a string or a list of strings, the
\* client key of a request is the first comma-separated value of the
\* forwarded-for header if that header is present, else the real-ip header if
\* present, else the peer address, else "unknown".
C18_ClientKeyDerivation ==
  \A r \in Reqs :
    req[r].slot # "none" =>
      req[r].clientKey = DerivedKey(req[r].xff, req[r].xri, req[r].remote)


\* what a step that makes an admission check of a key does to the store
IsolatedCheck ==
  (lastCheck' # lastCheck \/ rateLimitStore' # rateLimitStore) =>
    LET A == lastCheck'.key
        now == lastCheck'.now
        own == Pruned(StoreGet(rateLimitStore, A), now)
    IN /\ lastCheck'.made
       /\ \A B \in (DOMAIN rateLimitStore \cup DOMAIN rateLimitStore') \ {A} :
            /\ B \in DOMAIN rateLimitStore
            /\ B \in DOMAIN rateLimitStore'
            /\ rateLimitStore'[B] = rateLimitStore[B]
       /\ lastCheck'.ok <=> Len(Pruned(StoreGet(admitLog, A), now)) < RATE_LIMIT_MAX
       /\ StoreGet(rateLimitStore', A) =
            IF lastCheck'.ok THEN Append(own, now) ELSE own

\* C19: an admission check of key A leaves the list of every other key as it
\* was and creates no other key; its result is fixed by A's own earlier
\* admissions and the time of the check, and A's list after it by A's list
\* before it, whatever the traffic of other keys.
C19_PerKeyIsolation == [][IsolatedCheck]_vars

\* C19's case: a client is admitted while the other client's list is full
\* and wholly inside the window.
C19_Witness ==
  /\ lastCheck.made /\ lastCheck.ok
  /\ \E B \in DOMAIN rateLimitStore \ {lastCheck.key} :
       /\ Len(rateLimitStore[B]) = RATE_LIMIT_MAX
       /\ Pruned(rateLimitStore[B], lastCheck.now) = rateLimitStore[B]


\* the outcomes a request can come to after its slot was granted
FailedAfterRateCheck(q) ==
  /\ q.slot = "granted"
  /\ \/ q.pc = "rejected"
     \/ q.pc = "done" /\ q.res.statusCode # 200

\* C20: a granted slot is never given back: whatever the request comes to
\* afterwards, its timestamp is in the client's list for as long as it is
\* less than RATE_LIMIT_WINDOW_MS old, and the list holds every admission of
\* the client that is still inside the window, those of failed requests as
\* much as those of successful ones, so that the next check counts them.
C20_NoRefund ==
  /\ \A r \in Reqs :
       LET q == req[r] IN
       (q.slot = "granted" /\ clock - q.now < RATE_LIMIT_WINDOW_MS) =>
         \E i \in 1..Len(StoreGet(rateLimitStore, q.clientKey)) :
           rateLimitStore[q.clientKey][i] = q.now
  /\ \A key \in DOMAIN admitLog :
       Pruned(StoreGet(rateLimitStore, key), clock) = Pruned(admitLog[key], clock)
  /\ lastCheck.made =>
       (lastCheck.ok <=>
          Len(Pruned(AdmittedBefore(lastCheck), lastCheck.now)) < RATE_LIMIT_MAX)

\* C20's case: a request granted a slot was answered 502 after the clock
\* had moved on, and its timestamp is still in the client's list.
C20_Witness ==
  \E r \in Reqs :
    /\ FailedAfterRateCheck(req[r])
    /\ req[r].res.statusCode = 502
    /\ clock > req[r].now
    /\ clock - req[r].now < RATE_LIMIT_WINDOW_MS
    /\ req[r].now = rateLimitStore[req[r].clientKey][1]

====
